---- MODULE Spec2Model ----
(***************************************************************************)
(* Model of daily_assistant.py: the text helpers (clean_text_for_tts,      *)
(* fix_24h_times_for_tts, format_time_for_speech, get_time_greeting) and   *)
(* the briefing composer get_ai_day_analysis, the two calendar readers     *)
(* get_today_calendar_events and get_tomorrow_calendar_events, and main.   *)
(*                                                                         *)
(* A text is a sequence of one-character strings.  The literal pieces of   *)
(* the f-string templates of get_ai_day_analysis are kept as one element   *)
(* each (for instance ", and finally "), so that the template of a         *)
(* briefing can be told apart from the characters that come from data.     *)
(***************************************************************************)
EXTENDS Integers, Sequences, FiniteSets, TLC

VARIABLES
    fn,        \* the helper applied last ("none" before the first call)
    arg,       \* its argument
    ret,       \* its return value
    events_data,           \* get_ai_day_analysis: today's event list
    tomorrow_events_data,  \* get_ai_day_analysis: tomorrow's list, or None
    name_file,             \* user_name.txt: its content, Absent or Unreadable
    current_hour,          \* datetime.now().hour
    picks,                 \* the words random.choice returned during the call
    prompts,               \* how many times input() was called
    user_name,             \* get_ai_day_analysis: its local user_name
    outcome,               \* what the call of get_ai_day_analysis produced
    name_calls,            \* how many times get_user_name was called
    pc,                    \* main: the statement it is at ("idle" outside main)
    tts_engine,            \* main: what init_tts returned
    calendar,              \* the appointments of the Outlook calendar folder
    appointments_today,    \* get_today_calendar_events: its list events
    appointments_tomorrow, \* get_tomorrow_calendar_events: its list events
    main_user_name,        \* main: its local user_name (line 700)
    trace                  \* main: what was shown and spoken, in order

\* the state of a run of main
mainVars == <<pc, tts_engine, calendar, appointments_today,
              appointments_tomorrow, main_user_name, trace>>

vars == <<fn, arg, ret, events_data, tomorrow_events_data, name_file,
          current_hour, picks, prompts, user_name, outcome, name_calls,
          mainVars>>

----------------------------------------------------------------------------
(* Characters *)

DigitChars == <<"0", "1", "2", "3", "4", "5", "6", "7", "8", "9">>

Digits == {DigitChars[i] : i \in 1..10}

IsDigit(c) == c \in Digits

DigitVal(c) == CHOOSE d \in 0..9 : DigitChars[d + 1] = c

UpperLetters == {"A", "B", "M", "N", "P", "S", "U", "Z"}

LowerLetters == {"a", "b", "c", "d", "e", "g", "h", "i", "j", "k", "l", "m",
                 "n", "o", "p", "r", "s", "t", "u", "v", "w", "x", "y", "z"}

\* str.lower() on one character
LowerChar(c) ==
    CASE c = "A" -> "a" [] c = "B" -> "b" [] c = "M" -> "m" [] c = "N" -> "n"
      [] c = "P" -> "p" [] c = "S" -> "s" [] c = "U" -> "u" [] c = "Z" -> "z"
      [] OTHER -> c

\* str.lower()
Lower(s) == [i \in 1..Len(s) |-> LowerChar(s[i])]

\* the class \w of re: letters, digits and the underscore
IsWord(c) == c \in UpperLetters \cup LowerLetters \cup Digits \cup {"_"}

\* the class \s of re, and what str.strip() strips
IsSpace(c) == c \in {" ", "\t", "\n"}

\* str(n) for n >= 0
RECURSIVE Str(_)
Str(n) == IF n < 10 THEN <<DigitChars[n + 1]>>
          ELSE Str(n \div 10) \o <<DigitChars[(n % 10) + 1]>>

\* the format spec :02d for 0 <= n
Pad2(n) == IF n < 10 THEN <<"0">> \o Str(n) ELSE Str(n)

\* int() of a string of digits
RECURSIVE IntOf(_)
IntOf(s) == IF s = <<>> THEN 0
            ELSE 10 * IntOf(SubSeq(s, 1, Len(s) - 1)) + DigitVal(s[Len(s)])

\* the Python operator  needle in hay  on strings
Contains(hay, needle) ==
    \E i \in 0..(Len(hay) - Len(needle)) :
        SubSeq(hay, i + 1, i + Len(needle)) = needle

----------------------------------------------------------------------------
(* clean_text_for_tts *)

\* re.sub(r'[-_/\\|]', ' ', text)
ReplaceSeparators(text) ==
    [i \in 1..Len(text) |->
        IF text[i] \in {"-", "_", "/", "\\", "|"} THEN " " ELSE text[i]]

KeepWordOrSpace(c) == IsWord(c) \/ IsSpace(c)

\* re.sub(r'[^\w\s]', '', text)
RemoveSpecials(text) == SelectSeq(text, KeepWordOrSpace)

RECURSIVE LStrip(_)
LStrip(text) == IF text # <<>> /\ IsSpace(Head(text)) THEN LStrip(Tail(text))
                ELSE text

\* re.sub(r'\s+', ' ', text): every maximal run of whitespace becomes one space
RECURSIVE CollapseSpaces(_)
CollapseSpaces(text) ==
    IF text = <<>> THEN <<>>
    ELSE IF IsSpace(Head(text)) THEN <<" ">> \o CollapseSpaces(LStrip(text))
    ELSE <<Head(text)>> \o CollapseSpaces(Tail(text))

RECURSIVE RStrip(_)
RStrip(text) ==
    IF text # <<>> /\ IsSpace(text[Len(text)])
    THEN RStrip(SubSeq(text, 1, Len(text) - 1))
    ELSE text

\* str.strip()
Strip(text) == RStrip(LStrip(text))

\* clean_text_for_tts without the final strip()
clean_text_unstripped(text) ==
    IF text = <<>> THEN text
    ELSE CollapseSpaces(RemoveSpecials(ReplaceSeparators(text)))

clean_text_for_tts(text) ==
    IF text = <<>> THEN text
    ELSE Strip(CollapseSpaces(RemoveSpecials(ReplaceSeparators(text))))

----------------------------------------------------------------------------
(* fix_24h_times_for_tts *)

\* SpokenMilitary without the afternoon branch: 13..23 are spoken as they are
SpokenMilitaryNoWrap(hour, minute) ==
    IF hour = 0
    THEN IF minute = 0 THEN <<"m", "i", "d", "n", "i", "g", "h", "t">>
         ELSE <<"1", "2", " ">> \o Pad2(minute) \o <<" ", "A", "M">>
    ELSE IF hour = 12
    THEN IF minute = 0 THEN <<"n", "o", "o", "n">>
         ELSE <<"1", "2", " ">> \o Pad2(minute) \o <<" ", "P", "M">>
    ELSE IF minute = 0 THEN Str(hour)
         ELSE Str(hour) \o <<" ">> \o Pad2(minute)

\* the branches of convert_24h_time on hour and minute
SpokenMilitary(hour, minute) ==
    IF hour = 0
    THEN IF minute = 0 THEN <<"m", "i", "d", "n", "i", "g", "h", "t">>
         ELSE <<"1", "2", " ">> \o Pad2(minute) \o <<" ", "A", "M">>
    ELSE IF hour = 12
    THEN IF minute = 0 THEN <<"n", "o", "o", "n">>
         ELSE <<"1", "2", " ">> \o Pad2(minute) \o <<" ", "P", "M">>
    ELSE IF hour > 12
    THEN IF minute = 0 THEN Str(hour - 12)
         ELSE Str(hour - 12) \o <<" ">> \o Pad2(minute)
    ELSE IF minute = 0 THEN Str(hour)
         ELSE Str(hour) \o <<" ">> \o Pad2(minute)

convert_24h_time(time_str) ==
    SpokenMilitary(IntOf(SubSeq(time_str, 1, 2)), IntOf(SubSeq(time_str, 3, 4)))

\* \b just before text[i]: exactly one of text[i-1], text[i] is a word character
WordBoundary(text, i) ==
    LET before == i > 1 /\ i - 1 <= Len(text) /\ IsWord(text[i - 1])
        after  == i >= 1 /\ i <= Len(text) /\ IsWord(text[i])
    IN  before # after

\* [0-2]\d[0-5]\d at text[i..i+3]
MilitaryDigits(text, i) ==
    /\ i + 3 <= Len(text)
    /\ text[i] \in {"0", "1", "2"}
    /\ IsDigit(text[i + 1])
    /\ text[i + 2] \in {"0", "1", "2", "3", "4", "5"}
    /\ IsDigit(text[i + 3])

\* the pattern \b([0-2]\d[0-5]\d)\b matches at text[i..i+3]
MilitaryMatch(text, i) ==
    /\ MilitaryDigits(text, i)
    /\ WordBoundary(text, i)
    /\ WordBoundary(text, i + 4)

\* re.sub from position i on: leftmost matches, not overlapping
RECURSIVE SubFrom(_, _)
SubFrom(text, i) ==
    IF i > Len(text) THEN <<>>
    ELSE IF MilitaryMatch(text, i)
    THEN convert_24h_time(SubSeq(text, i, i + 3)) \o SubFrom(text, i + 4)
    ELSE <<text[i]>> \o SubFrom(text, i + 1)

fix_24h_times_for_tts(text) ==
    IF text = <<>> THEN text ELSE SubFrom(text, 1)

----------------------------------------------------------------------------
(* format_time_for_speech *)

\* length of the group (\d{1,2}) followed by ':', 0 when the pattern fails there
HourDigits(s) ==
    IF Len(s) >= 3 /\ IsDigit(s[1]) /\ IsDigit(s[2]) /\ s[3] = ":" THEN 2
    ELSE IF Len(s) >= 2 /\ IsDigit(s[1]) /\ s[2] = ":" THEN 1
    ELSE 0

\* first position at or after i that holds no whitespace (\s*)
RECURSIVE SkipSpaces(_, _)
SkipSpaces(s, i) ==
    IF i <= Len(s) /\ IsSpace(s[i]) THEN SkipSpaces(s, i + 1) ELSE i

\* the rest of the pattern after an hour of n digits, the period starting at k
TimeGroups(s, n, k) ==
    IF /\ n > 0
       /\ Len(s) >= n + 3
       /\ IsDigit(s[n + 2])
       /\ IsDigit(s[n + 3])
       /\ k + 1 <= Len(s)
       /\ s[k] \in {"A", "P"}
       /\ s[k + 1] = "M"
    THEN [matched |-> TRUE,
          hour    |-> IntOf(SubSeq(s, 1, n)),
          minute  |-> IntOf(SubSeq(s, n + 2, n + 3)),
          period  |-> <<s[k], "M">>]
    ELSE [matched |-> FALSE, hour |-> 0, minute |-> 0, period |-> <<>>]

TimeGroupsAfter(s, n) == TimeGroups(s, n, SkipSpaces(s, n + 4))

\* re.match(r'(\d{1,2}):(\d{2})\s*(AM|PM)', time_str): the groups, or no match
TimeMatch(s) == TimeGroupsAfter(s, HourDigits(s))

\* To24h without the branch that turns 12 AM into hour 0
To24hNoMidnight(hour, period) ==
    IF period = <<"P", "M">> /\ hour # 12 THEN hour + 12 ELSE hour

\* lines 521-524: the hour on the 24-hour clock
To24h(hour, period) ==
    IF period = <<"P", "M">> /\ hour # 12 THEN hour + 12
    ELSE IF period = <<"A", "M">> /\ hour = 12 THEN 0
    ELSE hour

\* lines 527-541: the words for an hour of the 24-hour clock and a minute
SpokenClock(hour, minute) ==
    IF minute = 0
    THEN IF hour = 0 THEN <<"m", "i", "d", "n", "i", "g", "h", "t">>
         ELSE IF hour = 12 THEN <<"n", "o", "o", "n">>
         ELSE IF hour > 12 THEN Str(hour - 12)
         ELSE Str(hour)
    ELSE IF hour > 12 THEN Str(hour - 12) \o <<" ">> \o Pad2(minute)
         ELSE Str(hour) \o <<" ">> \o Pad2(minute)

SpeakMatch(time_str, m) ==
    IF m.matched THEN SpokenClock(To24h(m.hour, m.period), m.minute)
    ELSE time_str

format_time_for_speech(time_str) == SpeakMatch(time_str, TimeMatch(time_str))

----------------------------------------------------------------------------
(* get_time_greeting, get_random_transition *)

\* get_time_greeting with the morning ending after 12, not before
get_time_greeting_late_noon(hour) ==
    IF 5 <= hour /\ hour <= 12 THEN "Good morning"
    ELSE IF 12 <= hour /\ hour < 17 THEN "Good afternoon"
    ELSE IF 17 <= hour /\ hour < 21 THEN "Good evening"
    ELSE "Good night"

get_time_greeting(hour) ==
    IF 5 <= hour /\ hour < 12 THEN "Good morning"
    ELSE IF 12 <= hour /\ hour < 17 THEN "Good afternoon"
    ELSE IF 17 <= hour /\ hour < 21 THEN "Good evening"
    ELSE "Good night"

transitions == {"followed by", "then", "next"}

----------------------------------------------------------------------------
(* Values of the briefing composer *)

\* an optional event list: None, or a list
None == [none |-> TRUE, items |-> <<>>]

Some(list) == [none |-> FALSE, items |-> list]

\* truth value of an optional list: None and [] are both false
Truthy(opt) == ~opt.none /\ opt.items # <<>>

\* user_name.txt: missing, present but failing to open or read, or readable
Absent == [state |-> "absent", content |-> <<>>]

Unreadable == [state |-> "unreadable", content |-> <<>>]

FileWith(text) == [state |-> "readable", content |-> text]

\* what input() does: returns a line, or raises EOFError on a closed stdin
Line(text) == [eof |-> FALSE, line |-> text]

EndOfInput == [eof |-> TRUE, line |-> <<>>]

\* the result of a step that may raise: a value, or the str() of an Exception
Ok(v) == [raised |-> FALSE, error |-> "", value |-> v]

Raise(e) == [raised |-> TRUE, error |-> e, value |-> <<>>]

\* a TTS engine: None, or an engine whose say()/runAndWait() works or raises
NoEngine == [none |-> TRUE, fails |-> FALSE]

Engine(fails) == [none |-> FALSE, fails |-> fails]

\* main is not running
MainIdle ==
    /\ pc = "idle"
    /\ tts_engine = NoEngine
    /\ calendar = {}
    /\ appointments_today = <<>>
    /\ appointments_tomorrow = <<>>
    /\ main_user_name = <<>>
    /\ trace = <<>>

----------------------------------------------------------------------------
(* get_user_name: the name, the file afterwards and the number of prompts *)

\* lines 183-195: the name was not read from the file, so it is asked for
AskName(file, answer, can_write) ==
    IF answer.eof
    THEN [raised |-> TRUE, error |-> "EOF when reading a line",
          name |-> <<>>, file |-> file, prompted |-> 1]
    ELSE [raised |-> FALSE, error |-> "", name |-> Strip(answer.line),
          file |-> IF Strip(answer.line) # <<>> /\ can_write
                   THEN FileWith(Strip(answer.line)) ELSE file,
          prompted |-> 1]

get_user_name(file, answer, can_write) ==
    IF file.state = "readable" /\ Strip(file.content) # <<>>
    THEN [raised |-> FALSE, error |-> "", name |-> Strip(file.content),
          file |-> file, prompted |-> 0]
    ELSE AskName(file, answer, can_write)

----------------------------------------------------------------------------
(* create_meeting_summary *)

UnknownOrganizer == <<"U", "n", "k", "n", "o", "w", "n", " ",
                      "o", "r", "g", "a", "n", "i", "z", "e", "r">>

\* event['organizer'] if event['organizer'] else "Unknown organizer"
OrganizerOf(event) ==
    IF event["organizer"] # <<>> THEN event["organizer"] ELSE UnknownOrganizer

\* UserIsOrganizer without the two calls of lower()
UserIsOrganizerCaseSensitive(organizer, name) ==
    /\ organizer # <<>>
    /\ name # <<>>
    /\ Contains(organizer, name)

\* organizer and user_name and user_name.lower() in organizer.lower()
UserIsOrganizer(organizer, name) ==
    /\ organizer # <<>>
    /\ name # <<>>
    /\ Contains(Lower(organizer), Lower(name))

\* lines 561-564: the part appended for one event
PartText(clean_subject, time_range, organizer, name) ==
    IF UserIsOrganizer(organizer, name)
    THEN clean_subject \o <<" from ">> \o time_range
    ELSE clean_subject \o <<" from ">> \o time_range
             \o <<" with ">> \o clean_text_for_tts(organizer)

\* the body of the loop for one event; the keys are read in this order
MeetingPart(event, name) ==
    IF "organizer" \notin DOMAIN event THEN Raise("'organizer'")
    ELSE IF "subject" \notin DOMAIN event THEN Raise("'subject'")
    ELSE IF "start_time" \notin DOMAIN event THEN Raise("'start_time'")
    ELSE IF "end_time" \notin DOMAIN event THEN Raise("'end_time'")
    ELSE Ok(PartText(
             fix_24h_times_for_tts(clean_text_for_tts(event["subject"])),
             format_time_for_speech(event["start_time"]) \o <<" to ">>
                 \o format_time_for_speech(event["end_time"]),
             OrganizerOf(event), name))

\* AppendPart inserting at the front of the list: the parts come out reversed
AppendPartInFront(part, rest) ==
    IF part.raised THEN part
    ELSE IF rest.raised THEN rest
    ELSE Ok(rest.value \o <<part.value>>)

\* meeting_parts.append: the parts so far, or the exception already raised
AppendPart(part, rest) ==
    IF part.raised THEN part
    ELSE IF rest.raised THEN rest
    ELSE Ok(<<part.value>> \o rest.value)

\* the list meeting_parts, or the first exception the loop raises
RECURSIVE create_meeting_summary(_, _)
create_meeting_summary(events, name) ==
    IF events = <<>> THEN Ok(<<>>)
    ELSE AppendPart(MeetingPart(Head(events), name),
                    create_meeting_summary(Tail(events), name))

----------------------------------------------------------------------------
(* get_ai_day_analysis *)

\* the loop  for i in range(1, len(parts) - 1)  with one random word per round;
\* rnd is the stream of words random.choice returns, i counts from 1 as parts does
RECURSIVE MiddleMeetings(_, _, _)
MiddleMeetings(parts, rnd, i) ==
    IF i >= Len(parts) THEN <<>>
    ELSE <<", ", rnd[i - 1], " ">> \o parts[i] \o MiddleMeetings(parts, rnd, i + 1)

\* how many random words a list of n parts consumes
PicksFor(n) == IF n = 2 THEN 1 ELSE IF n >= 3 THEN n - 2 ELSE 0

\* TodaySummary with the three-or-more grammar used from two meetings on
TodaySummaryFinallyFromTwo(hello, parts, rnd) ==
    IF parts = <<>>
    THEN hello \o <<"! You have a free day today.">>
    ELSE IF Len(parts) = 1
    THEN hello \o <<"! You start your day with ">> \o parts[1] \o <<".">>
    ELSE hello \o <<"! You start your day with ">> \o parts[1]
             \o MiddleMeetings(parts, rnd, 2)
             \o <<", and finally ">> \o parts[Len(parts)] \o <<".">>

\* lines 569-590: the text result after today's part
TodaySummary(hello, parts, rnd) ==
    IF parts = <<>>
    THEN hello \o <<"! You have a free day today.">>
    ELSE IF Len(parts) = 1
    THEN hello \o <<"! You start your day with ">> \o parts[1] \o <<".">>
    ELSE IF Len(parts) = 2
    THEN hello \o <<"! You start your day with ">> \o parts[1]
             \o <<", ", rnd[1], " ">> \o parts[2] \o <<".">>
    ELSE hello \o <<"! You start your day with ">> \o parts[1]
             \o MiddleMeetings(parts, rnd, 2)
             \o <<", and finally ">> \o parts[Len(parts)] \o <<".">>

\* lines 596-609: what is appended for a list of tomorrow parts
TomorrowSummary(parts, rnd) ==
    IF parts = <<>>
    THEN <<" Tomorrow is free with no scheduled meetings.">>
    ELSE IF Len(parts) = 1
    THEN <<" Tomorrow you have ">> \o parts[1] \o <<".">>
    ELSE IF Len(parts) = 2
    THEN <<" Tomorrow you start with ">> \o parts[1]
             \o <<", ", rnd[1], " ">> \o parts[2] \o <<".">>
    ELSE <<" Tomorrow you start with ">> \o parts[1]
             \o MiddleMeetings(parts, rnd, 2)
             \o <<", and finally ">> \o parts[Len(parts)] \o <<".">>

FreeDay(greeting, name) ==
    <<greeting, " ">> \o name
        \o <<"! You have a free day with no scheduled meetings - perfect time to catch up on personal projects or take a well-deserved break!">>

\* the stream rnd without its first n words
DropPicks(rnd, n) == SubSeq(rnd, n + 1, Len(rnd))

\* lines 592-611: tomorrow's part is appended when the list is true
WithTomorrow(result, tomorrow, later, rnd) ==
    IF Truthy(tomorrow)
    THEN IF later.raised THEN later
         ELSE Ok(result \o TomorrowSummary(later.value, rnd))
    ELSE Ok(result)

\* lines 568-611, given the parts of the two days or the exception they raised
BothDays(hello, events, today, tomorrow, later, rnd) ==
    IF events # <<>> /\ today.raised THEN today
    ELSE WithTomorrow(TodaySummary(hello, today.value, rnd), tomorrow, later,
                      DropPicks(rnd, PicksFor(Len(events))))

\* AnalysisBody with the free-day test as  tomorrow_events_data is None
AnalysisBodyTomorrowIsNone(events, tomorrow, who, hour, rnd) ==
    IF who.raised THEN Raise(who.error)
    ELSE IF events = <<>> /\ tomorrow.none
    THEN Ok(FreeDay(get_time_greeting(hour), who.name))
    ELSE BothDays(<<get_time_greeting(hour), " ">> \o who.name, events,
                  create_meeting_summary(events, who.name), tomorrow,
                  create_meeting_summary(tomorrow.items, who.name), rnd)

\* the body of the try block: the text returned, or the exception raised in it
AnalysisBody(events, tomorrow, who, hour, rnd) ==
    IF who.raised THEN Raise(who.error)
    ELSE IF events = <<>> /\ ~Truthy(tomorrow)
    THEN Ok(FreeDay(get_time_greeting(hour), who.name))
    ELSE BothDays(<<get_time_greeting(hour), " ">> \o who.name, events,
                  create_meeting_summary(events, who.name), tomorrow,
                  create_meeting_summary(tomorrow.items, who.name), rnd)

Apology == "Sorry, I couldn't create your day summary due to an error: "

\* Handle as  except KeyError as e:  any other exception reaches the caller
HandleKeyErrorOnly(body) ==
    IF body.raised /\ body.error = "EOF when reading a line"
    THEN [kind |-> "raised", value |-> <<>>, error |-> body.error]
    ELSE IF body.raised
    THEN [kind |-> "returned", value |-> <<Apology, body.error>>,
          error |-> body.error]
    ELSE [kind |-> "returned", value |-> body.value, error |-> ""]

\* except Exception as e: every exception of the body becomes the apology
Handle(body) ==
    IF body.raised
    THEN [kind |-> "returned", value |-> <<Apology, body.error>>,
          error |-> body.error]
    ELSE [kind |-> "returned", value |-> body.value, error |-> ""]

get_ai_day_analysis(events, tomorrow, who, hour, rnd) ==
    Handle(AnalysisBody(events, tomorrow, who, hour, rnd))

\* the number of calls of get_random_transition a call makes before it
\* returns or raises
PicksUsed(events, tomorrow, who) ==
    IF who.raised \/ (events = <<>> /\ ~Truthy(tomorrow)) THEN 0
    ELSE IF create_meeting_summary(events, who.name).raised THEN 0
    ELSE IF ~Truthy(tomorrow) THEN PicksFor(Len(events))
    ELSE IF create_meeting_summary(tomorrow.items, who.name).raised
    THEN PicksFor(Len(events))
    ELSE PicksFor(Len(events)) + PicksFor(Len(tomorrow.items))

----------------------------------------------------------------------------
(* Inputs of the text helpers *)

MaxTextLen == 4

CleanAlphabet == {"a", "Z", "7", "_", "-", "!", " ", "\t"}

RECURSIVE TextsUpTo(_, _)
TextsUpTo(alphabet, n) ==
    IF n = 0 THEN {<<>>}
    ELSE LET shorter == TextsUpTo(alphabet, n - 1)
         IN  shorter \cup {Append(t, c) : t \in shorter, c \in alphabet}

CleanInputs == TextsUpTo(CleanAlphabet, MaxTextLen)

\* the text around a four-digit word
ContextsBefore == {<<>>, <<"t", "o", " ">>, <<"x">>, <<"(">>}

ContextsAfter == {<<>>, <<" ", "t", "o">>, <<"7">>, <<".">>}

FourDigitWords ==
    {<<a, b, c, d>> : a \in {"0", "1", "2", "3"}, b \in Digits,
                      c \in {"0", "1", "3", "5", "6", "9"}, d \in {"0", "5", "9"}}

AM == <<"A", "M">>

PM == <<"P", "M">>

\* strftime('%I:%M %p')
ClockText(h, m, p) == Pad2(h) \o <<":">> \o Pad2(m) \o <<" ">> \o p

MalformedTimes == {<<>>, <<"9", ":", "0", "5", "P", "M">>,
                   <<"0", "9", ":", "0", "0">>, <<"n", "o", "o", "n">>,
                   <<"0", "9", "0", "0", " ", "A", "M">>,
                   <<"9", ":", "5", " ", "A", "M">>}

----------------------------------------------------------------------------
(* The text helpers as a state machine: a run is one call of one helper *)

InitShared ==
    /\ fn = "none"
    /\ arg = <<>>
    /\ ret = <<>>
    /\ events_data = <<>>
    /\ tomorrow_events_data = None
    /\ name_file = Absent
    /\ current_hour = 0
    /\ picks = <<>>
    /\ prompts = 0
    /\ user_name = <<>>
    /\ outcome = [kind |-> "none", value |-> <<>>, error |-> ""]
    /\ name_calls = 0
    /\ MainIdle

composeVars == <<events_data, tomorrow_events_data, name_file, picks, prompts,
                 user_name, outcome, name_calls>>

CleanText ==
    /\ fn = "none"
    /\ \E t \in CleanInputs :
        /\ fn' = "clean_text_for_tts"
        /\ arg' = t
        /\ ret' = clean_text_for_tts(t)
        /\ UNCHANGED <<current_hour, composeVars, mainVars>>

FixTimes ==
    /\ fn = "none"
    /\ \E pre \in ContextsBefore, w \in FourDigitWords, post \in ContextsAfter :
        /\ fn' = "fix_24h_times_for_tts"
        /\ arg' = [before |-> pre, word |-> w, after |-> post]
        /\ ret' = fix_24h_times_for_tts(pre \o w \o post)
        /\ UNCHANGED <<current_hour, composeVars, mainVars>>

FormatClockTime ==
    /\ fn = "none"
    /\ \E h \in 1..12, m \in 0..59, p \in {AM, PM} :
        /\ fn' = "format_time_for_speech"
        /\ arg' = [hour |-> h, minute |-> m, period |-> p]
        /\ ret' = format_time_for_speech(ClockText(h, m, p))
        /\ UNCHANGED <<current_hour, composeVars, mainVars>>

FormatMalformedTime ==
    /\ fn = "none"
    /\ \E t \in MalformedTimes :
        /\ fn' = "format_time_for_speech(malformed)"
        /\ arg' = t
        /\ ret' = format_time_for_speech(t)
        /\ UNCHANGED <<current_hour, composeVars, mainVars>>

TimeGreeting ==
    /\ fn = "none"
    /\ \E h \in 0..23 :
        /\ fn' = "get_time_greeting"
        /\ current_hour' = h
        /\ arg' = <<>>
        /\ ret' = get_time_greeting(h)
        /\ UNCHANGED <<composeVars, mainVars>>

InitText == InitShared

NextText ==
    \/ CleanText
    \/ FixTimes
    \/ FormatClockTime
    \/ FormatMalformedTime
    \/ TimeGreeting

SpecText == InitText /\ [][NextText]_vars

----------------------------------------------------------------------------
(* Inputs of the briefing composer *)

MaxEvents == 3

Standup == [subject    |-> <<"Z", "-", "a", "!">>,
            start_time |-> ClockText(9, 0, AM),
            end_time   |-> ClockText(9, 15, AM),
            organizer  |-> <<"B", "o", "b">>]

Review == [subject    |-> <<"B", " ", "1", "8", "0", "0">>,
           start_time |-> ClockText(12, 0, PM),
           end_time   |-> ClockText(1, 30, PM),
           organizer  |-> <<"S", "A", "M">>]

\* no organizer, and an end time that is no clock time
Block == [subject    |-> <<"A">>,
          start_time |-> ClockText(12, 30, AM),
          end_time   |-> <<"n", "o", "o", "n">>,
          organizer  |-> <<>>]

\* a dict without the key 'organizer'
Broken == [subject    |-> <<"M">>,
           start_time |-> ClockText(2, 0, PM),
           end_time   |-> ClockText(3, 0, PM)]

Events == {Standup, Review, Block, Broken}

RECURSIVE ListsUpTo(_, _)
ListsUpTo(S, n) ==
    IF n = 0 THEN {<<>>}
    ELSE LET shorter == ListsUpTo(S, n - 1)
         IN  shorter \cup {Append(l, e) : l \in shorter, e \in S}

EventLists == ListsUpTo(Events, MaxEvents)

Sam == <<"S", "a", "m">>

An == <<"A", "n">>

NameFiles == {Absent, Unreadable, FileWith(Sam), FileWith(<<" ">> \o An \o <<"\n">>)}

Answers == {Line(<<>>), Line(An \o <<" ">>), EndOfInput}

\* the hour of the briefing; get_time_greeting is run over 0..23 by TimeGreeting
SampleHours == {8}

----------------------------------------------------------------------------
(* The composer as a state machine: a run is one call of get_ai_day_analysis *)

Init ==
    /\ fn = "none"
    /\ arg = <<>>
    /\ ret = <<>>
    /\ events_data = <<>>
    /\ tomorrow_events_data = None
    /\ name_file \in NameFiles
    /\ current_hour \in SampleHours
    /\ picks = <<>>
    /\ prompts = 0
    /\ user_name = <<>>
    /\ outcome = [kind |-> "none", value |-> <<>>, error |-> ""]
    /\ name_calls = 0
    /\ MainIdle

\* the answers input() can give in a call: it is called only when no name is
\* read from the file
AnswersAsked(file) ==
    IF get_user_name(file, EndOfInput, FALSE).prompted = 1 THEN Answers
    ELSE {EndOfInput}

\* whether writing the file succeeds, for the calls that write it
WriteOutcomes(file, answer) ==
    IF get_user_name(file, answer, TRUE).file # file THEN BOOLEAN ELSE {TRUE}

Analyse(events, tomorrow) ==
    /\ Len(events) + Len(tomorrow.items) <= MaxEvents
    /\ \E answer \in AnswersAsked(name_file) :
       \E can_write \in WriteOutcomes(name_file, answer) :
        LET who == get_user_name(name_file, answer, can_write)
        IN  \E rnd \in [1..PicksUsed(events, tomorrow, who) -> transitions] :
                /\ events_data' = events
                /\ tomorrow_events_data' = tomorrow
                /\ name_file' = who.file
                /\ prompts' = prompts + who.prompted
                /\ name_calls' = name_calls + 1
                /\ user_name' = who.name
                /\ picks' = rnd
                /\ outcome' = get_ai_day_analysis(events, tomorrow, who,
                                                  current_hour, rnd)
                /\ UNCHANGED <<fn, arg, ret, current_hour, mainVars>>

\* main with INCLUDE_TOMORROW = False passes None for tomorrow
AnalyseToday ==
    /\ outcome.kind = "none"
    /\ \E events \in EventLists : Analyse(events, None)

AnalyseBothDays ==
    /\ outcome.kind = "none"
    /\ \E events \in EventLists, later \in EventLists :
        Analyse(events, Some(later))

Next == AnalyseToday \/ AnalyseBothDays

Spec == Init /\ [][Next]_vars

----------------------------------------------------------------------------
(* The calendar readers get_today_calendar_events and                      *)
(* get_tomorrow_calendar_events.  A day is a number of days from today:    *)
(* 0 is datetime.now().date(), 1 tomorrow, -1 yesterday.                   *)

birthday == <<"b", "i", "r", "t", "h", "d", "a", "y">>

holiday == <<"h", "o", "l", "i", "d", "a", "y">>

anniversary == <<"a", "n", "n", "i", "v", "e", "r", "s", "a", "r", "y">>

\* the subject test without lower()
SkippedSubjectCaseSensitive(Subject) ==
    \/ Contains(Subject, birthday)
    \/ Contains(Subject, holiday)
    \/ Contains(Subject, anniversary)

\* lines 242-245, 268-271 and 432-435: subject = appointment.Subject.lower()
\* and the three tests  'birthday' in subject  ...
SkippedSubject(Subject) ==
    \/ Contains(Lower(Subject), birthday)
    \/ Contains(Lower(Subject), holiday)
    \/ Contains(Lower(Subject), anniversary)

\* the order of  appointments.Sort("[Start]")
StartKey(appointment) ==
    (appointment.Start.day * 24 + appointment.Start.hour) * 60
        + appointment.Start.minute

\* calendar_folder.Items after Sort("[Start]")
RECURSIVE SortByStart(_)
SortByStart(items) ==
    IF items = {} THEN <<>>
    ELSE LET first == CHOOSE a \in items :
                          \A b \in items : StartKey(a) <= StartKey(b)
         IN  <<first>> \o SortByStart(items \ {first})

\* the appointments of a list that start on the day
RECURSIVE StartingOn(_, _)
StartingOn(appointments, day) ==
    IF appointments = <<>> THEN <<>>
    ELSE IF Head(appointments).Start.day = day
    THEN <<Head(appointments)>> \o StartingOn(Tail(appointments), day)
    ELSE StartingOn(Tail(appointments), day)

\* how the calendar provider answers: win32com is missing, connecting to
\* Outlook raises, Restrict raises, Restrict returns the appointments of the
\* day, or Restrict returns appointments of other days as well
Providers == {"no win32com", "Dispatch raises", "Restrict raises",
              "Restrict exact", "Restrict loose"}

\* appointments.Restrict("[Start] >= day AND [Start] < day + 1")
Restrict(appointments, day, provider) ==
    IF provider = "Restrict raises" THEN Raise("Restrict")
    ELSE IF provider = "Restrict exact" THEN Ok(StartingOn(appointments, day))
    ELSE Ok(appointments)

\* lines 240-251 and 430-441 without the exception: the appointments of the
\* filtered list that are appended to events
RECURSIVE KeptByFilter(_, _)
KeptByFilter(filtered_appointments, day) ==
    IF filtered_appointments = <<>> THEN <<>>
    ELSE IF \/ SkippedSubject(Head(filtered_appointments).Subject)
            \/ Head(filtered_appointments).Start.day # day
    THEN KeptByFilter(Tail(filtered_appointments), day)
    ELSE <<Head(filtered_appointments)>>
             \o KeptByFilter(Tail(filtered_appointments), day)

\* lines 238-251 and 428-441: the try block of the filtered path; reading the
\* Subject of a broken appointment raises and ends the loop
FilteredSearch(appointments, day, provider) ==
    IF Restrict(appointments, day, provider).raised
    THEN Restrict(appointments, day, provider)
    ELSE IF \E i \in 1..Len(Restrict(appointments, day, provider).value) :
                Restrict(appointments, day, provider).value[i].broken
    THEN Raise("Subject")
    ELSE Ok(KeptByFilter(Restrict(appointments, day, provider).value, day))

\* the manual search stops after this many items
SearchLimit == 100

\* lines 257-277: the manual search over the first SearchLimit items; an
\* appointment that raises is passed over
RECURSIVE ManualSearch(_, _, _)
ManualSearch(appointments, today, count) ==
    IF appointments = <<>> \/ count + 1 > SearchLimit THEN <<>>
    ELSE IF /\ Head(appointments).Start.day = today
            /\ ~Head(appointments).broken
            /\ ~SkippedSubject(Head(appointments).Subject)
    THEN <<Head(appointments)>>
             \o ManualSearch(Tail(appointments), today, count + 1)
    ELSE ManualSearch(Tail(appointments), today, count + 1)

\* lines 202-282: the list events of get_today_calendar_events when the
\* conversion starts
TodaysAppointments(items, provider, today) ==
    IF provider \in {"no win32com", "Dispatch raises"} THEN <<>>
    ELSE IF FilteredSearch(SortByStart(items), today, provider).raised
    THEN ManualSearch(SortByStart(items), today, 0)
    ELSE FilteredSearch(SortByStart(items), today, provider).value

\* lines 396-448: the list events of get_tomorrow_calendar_events; a failure
\* of the filtered path returns [] at once
TomorrowsAppointments(items, provider, today) ==
    IF provider \in {"no win32com", "Dispatch raises"} THEN <<>>
    ELSE IF FilteredSearch(SortByStart(items), today + 1, provider).raised
    THEN <<>>
    ELSE FilteredSearch(SortByStart(items), today + 1, provider).value

NoSubject == <<"N", "o", " ", "S", "u", "b", "j", "e", "c", "t">>

\* strftime('%I:%M %p') of a Start or End
Strftime(time) ==
    ClockText(IF time.hour % 12 = 0 THEN 12 ELSE time.hour % 12, time.minute,
              IF time.hour < 12 THEN AM ELSE PM)

\* lines 286-385: the dict built for one of today's appointments; the keys
\* that neither the composer nor the filters read (is_recurring, categories,
\* importance, reminder_set, duration, is_online, meeting_type) are left out
EventInfo(appointment) ==
    [subject    |-> IF appointment.Subject # <<>> THEN appointment.Subject
                    ELSE NoSubject,
     start_time |-> Strftime(appointment.Start),
     end_time   |-> Strftime(appointment.End),
     location   |-> appointment.Location,
     organizer  |-> appointment.Organizer,
     all_day    |-> appointment.AllDayEvent]

\* lines 452-489: the dict built for one of tomorrow's appointments
TomorrowEventInfo(appointment) ==
    [subject    |-> IF appointment.Subject # <<>> THEN appointment.Subject
                    ELSE NoSubject,
     start_time |-> Strftime(appointment.Start),
     end_time   |-> Strftime(appointment.End),
     location   |-> appointment.Location,
     organizer  |-> appointment.Organizer]

get_today_calendar_events(items, provider, today) ==
    [i \in 1..Len(TodaysAppointments(items, provider, today)) |->
        EventInfo(TodaysAppointments(items, provider, today)[i])]

get_tomorrow_calendar_events(items, provider, today) ==
    [i \in 1..Len(TomorrowsAppointments(items, provider, today)) |->
        TomorrowEventInfo(TomorrowsAppointments(items, provider, today)[i])]

----------------------------------------------------------------------------
(* Calendars *)

MaxAppointments == 2

At(d, h, m) == [day |-> d, hour |-> h, minute |-> m]

Appointment(Subject, Start, End, Organizer, AllDayEvent, broken) ==
    [Subject |-> Subject, Start |-> Start, End |-> End, Location |-> <<>>,
     Organizer |-> Organizer, AllDayEvent |-> AllDayEvent, broken |-> broken]

\* yesterday's meeting
Past == Appointment(<<"A">>, At(-1, 14, 0), At(-1, 15, 0), <<"B", "o", "b">>,
                    FALSE, FALSE)

\* an all-day appointment today
DayOff == Appointment(<<"M">>, At(0, 0, 0), At(1, 0, 0), <<>>, TRUE, FALSE)

Daily == Appointment(<<"Z", "-", "a", "!">>, At(0, 9, 0), At(0, 9, 15),
                     <<"B", "o", "b">>, FALSE, FALSE)

Party == Appointment(<<"S", "a", "m", " ", "B", "i", "r", "t", "h", "d", "a", "y">>,
                     At(0, 10, 0), At(0, 11, 0), <<>>, FALSE, FALSE)

Jubilee == Appointment(anniversary, At(0, 13, 0), At(0, 14, 0), <<>>, TRUE,
                       FALSE)

\* an appointment whose Subject cannot be read
Corrupt == Appointment(<<>>, At(0, 15, 0), At(0, 16, 0), <<>>, FALSE, TRUE)

\* an all-day appointment tomorrow
Retreat == Appointment(<<"U">>, At(1, 0, 0), At(2, 0, 0), <<"S", "A", "M">>,
                       TRUE, FALSE)

Closed == Appointment(<<"B", " ">> \o holiday, At(1, 8, 0), At(1, 17, 0),
                      <<>>, FALSE, FALSE)

Later == Appointment(<<"B", " ", "1", "8", "0", "0">>, At(1, 12, 0),
                     At(1, 13, 30), <<"S", "A", "M">>, FALSE, FALSE)

Appointments == {Past, DayOff, Daily, Party, Jubilee, Corrupt, Retreat,
                 Closed, Later}

Calendars == {c \in SUBSET Appointments : Cardinality(c) <= MaxAppointments}

----------------------------------------------------------------------------
(* main as a state machine: pc names the statement main is at *)

INCLUDE_TOMORROW == TRUE

\* what init_tts can return (lines 77-98): None when pyttsx3 is missing or
\* its initialisation raises, otherwise an engine
Engines == {NoEngine, Engine(FALSE), Engine(TRUE)}

Shown(event, text) == [event |-> event, text |-> text]

Logged(event) == [event |-> event, text |-> <<>>]

\* speak_text without its try block
speak_text_unguarded(text, engine) ==
    IF ~engine.none
    THEN IF engine.fails
         THEN [raised |-> TRUE, log |-> <<Shown("say raised", text)>>]
         ELSE [raised |-> FALSE, log |-> <<Shown("said", text)>>]
    ELSE [raised |-> FALSE, log |-> <<Logged("TTS not available")>>]

\* lines 100-109: what speak_text adds to the trace, and whether it raises
speak_text(text, engine) ==
    IF ~engine.none
    THEN IF engine.fails
         THEN [raised |-> FALSE,
               log |-> <<Shown("say raised", text), Logged("TTS failed")>>]
         ELSE [raised |-> FALSE, log |-> <<Shown("said", text)>>]
    ELSE [raised |-> FALSE, log |-> <<Logged("TTS not available")>>]

\* the keys display_daily_summary reads with event[...]
DisplayedKeys == {"subject", "start_time", "end_time", "location", "organizer"}

\* lines 627-672: an event without one of the keys raises KeyError
DisplayRaises(events, tomorrow) ==
    \/ \E i \in 1..Len(events) : DisplayedKeys \ DOMAIN events[i] # {}
    \/ \E i \in 1..Len(tomorrow.items) :
           DisplayedKeys \ DOMAIN tomorrow.items[i] # {}

NameFilesOfMain == {Absent, Unreadable, FileWith(Sam)}

InitMain ==
    /\ fn = "none"
    /\ arg = <<>>
    /\ ret = <<>>
    /\ events_data = <<>>
    /\ tomorrow_events_data = None
    /\ name_file \in NameFilesOfMain
    /\ current_hour \in SampleHours
    /\ picks = <<>>
    /\ prompts = 0
    /\ user_name = <<>>
    /\ outcome = [kind |-> "none", value |-> <<>>, error |-> ""]
    /\ name_calls = 0
    /\ pc = "init_tts"
    /\ tts_engine = NoEngine
    /\ calendar \in Calendars
    /\ appointments_today = <<>>
    /\ appointments_tomorrow = <<>>
    /\ main_user_name = <<>>
    /\ trace = <<>>

\* line 697
MainInitTts ==
    /\ pc = "init_tts"
    /\ \E engine \in Engines :
        /\ tts_engine' = engine
        /\ pc' = "get_user_name"
        /\ UNCHANGED <<fn, arg, ret, current_hour, composeVars, calendar,
                       appointments_today, appointments_tomorrow,
                       main_user_name, trace>>

\* line 700: an exception of get_user_name is caught nowhere
MainGetUserName ==
    /\ pc = "get_user_name"
    /\ \E answer \in AnswersAsked(name_file) :
       \E can_write \in WriteOutcomes(name_file, answer) :
        /\ name_calls' = name_calls + 1
        /\ prompts' = prompts + get_user_name(name_file, answer, can_write).prompted
        /\ name_file' = get_user_name(name_file, answer, can_write).file
        /\ main_user_name' = get_user_name(name_file, answer, can_write).name
        /\ IF get_user_name(name_file, answer, can_write).raised
           THEN /\ pc' = "crashed"
                /\ trace' = Append(trace, Logged("uncaught EOFError"))
           ELSE /\ pc' = "get_today_calendar_events"
                /\ trace' = trace
        /\ UNCHANGED <<fn, arg, ret, current_hour, events_data,
                       tomorrow_events_data, picks, user_name, outcome,
                       tts_engine, calendar, appointments_today,
                       appointments_tomorrow>>

\* line 703
MainFetchToday ==
    /\ pc = "get_today_calendar_events"
    /\ \E provider \in Providers :
        /\ appointments_today' = TodaysAppointments(calendar, provider, 0)
        /\ events_data' = get_today_calendar_events(calendar, provider, 0)
        /\ trace' = Append(trace, Logged("fetched today"))
        /\ pc' = "get_tomorrow_calendar_events"
        /\ UNCHANGED <<fn, arg, ret, current_hour, tomorrow_events_data,
                       name_file, picks, prompts, user_name, outcome,
                       name_calls, tts_engine, calendar,
                       appointments_tomorrow, main_user_name>>

\* lines 706-708
MainFetchTomorrow ==
    /\ pc = "get_tomorrow_calendar_events"
    /\ \E provider \in Providers :
        /\ appointments_tomorrow' =
               IF INCLUDE_TOMORROW
               THEN TomorrowsAppointments(calendar, provider, 0) ELSE <<>>
        /\ tomorrow_events_data' =
               IF INCLUDE_TOMORROW
               THEN Some(get_tomorrow_calendar_events(calendar, provider, 0))
               ELSE None
        /\ trace' = Append(trace, Logged("fetched tomorrow"))
        /\ pc' = "get_ai_day_analysis"
        /\ UNCHANGED <<fn, arg, ret, current_hour, events_data, name_file,
                       picks, prompts, user_name, outcome, name_calls,
                       tts_engine, calendar, appointments_today,
                       main_user_name>>

\* line 711: the call asks for the user name itself (lines 504 and 508)
MainCompose ==
    /\ pc = "get_ai_day_analysis"
    /\ \E answer \in AnswersAsked(name_file) :
       \E can_write \in WriteOutcomes(name_file, answer) :
       \E rnd \in [1..PicksUsed(events_data, tomorrow_events_data,
                               get_user_name(name_file, answer, can_write))
                      -> transitions] :
        /\ name_calls' = name_calls + 1
        /\ prompts' = prompts + get_user_name(name_file, answer, can_write).prompted
        /\ name_file' = get_user_name(name_file, answer, can_write).file
        /\ user_name' = get_user_name(name_file, answer, can_write).name
        /\ picks' = rnd
        /\ outcome' = get_ai_day_analysis(
                          events_data, tomorrow_events_data,
                          get_user_name(name_file, answer, can_write),
                          current_hour, rnd)
        /\ trace' = Append(trace, Logged("composed"))
        /\ pc' = "display_daily_summary"
        /\ UNCHANGED <<fn, arg, ret, current_hour, events_data,
                       tomorrow_events_data, tts_engine, calendar,
                       appointments_today, appointments_tomorrow,
                       main_user_name>>

\* line 714: display_daily_summary prints ai_analysis at line 683
MainDisplay ==
    /\ pc = "display_daily_summary"
    /\ IF DisplayRaises(events_data, tomorrow_events_data)
       THEN /\ pc' = "crashed"
            /\ trace' = Append(trace, Logged("uncaught KeyError"))
       ELSE /\ pc' = "speak_text"
            /\ trace' = Append(trace, Shown("displayed", outcome.value))
    /\ UNCHANGED <<fn, arg, ret, current_hour, composeVars, tts_engine,
                   calendar, appointments_today, appointments_tomorrow,
                   main_user_name>>

\* lines 717-722
MainSpeak ==
    /\ pc = "speak_text"
    /\ IF outcome.value # <<>> /\ ~tts_engine.none
       THEN /\ trace' = trace \o speak_text(outcome.value, tts_engine).log
            /\ pc' = IF speak_text(outcome.value, tts_engine).raised
                     THEN "crashed" ELSE "done"
       ELSE IF outcome.value # <<>>
       THEN /\ trace' = Append(trace, Shown("printed again", outcome.value))
            /\ pc' = "done"
       ELSE /\ trace' = trace
            /\ pc' = "done"
    /\ UNCHANGED <<fn, arg, ret, current_hour, composeVars, tts_engine,
                   calendar, appointments_today, appointments_tomorrow,
                   main_user_name>>

NextMain ==
    \/ MainInitTts
    \/ MainGetUserName
    \/ MainFetchToday
    \/ MainFetchTomorrow
    \/ MainCompose
    \/ MainDisplay
    \/ MainSpeak

SpecMain == InitMain /\ [][NextMain]_vars

----------------------------------------------------------------------------
(* Reading a briefing back: its two day sentences, their phrases and their  *)
(* connectives                                                             *)

\* the call returned a briefing, not the apology
Briefed == outcome.kind = "returned" /\ outcome.error = ""

TomorrowOpenings == {" Tomorrow you have ", " Tomorrow you start with ",
                     " Tomorrow is free with no scheduled meetings."}

\* the index of the first element of text that is in S, 0 when there is none
FirstIn(text, S) ==
    IF \E i \in 1..Len(text) : text[i] \in S
    THEN CHOOSE i \in 1..Len(text) :
             text[i] \in S /\ \A j \in 1..(i - 1) : text[j] \notin S
    ELSE 0

\* the part of the briefing before the tomorrow section
TodaySentence(text) ==
    IF FirstIn(text, TomorrowOpenings) = 0 THEN text
    ELSE SubSeq(text, 1, FirstIn(text, TomorrowOpenings) - 1)

\* the tomorrow section, empty when the briefing has none
TomorrowSentence(text) ==
    IF FirstIn(text, TomorrowOpenings) = 0 THEN <<>>
    ELSE SubSeq(text, FirstIn(text, TomorrowOpenings), Len(text))

IsConnective(a) == a \in transitions \cup {", and finally "}

Connectives(sentence) == SelectSeq(sentence, IsConnective)

PhraseOpenings == {"! You start your day with ", " Tomorrow you have ",
                   " Tomorrow you start with "}

\* a day sentence without its opening and its final full stop
Body(sentence) ==
    SubSeq(sentence, FirstIn(sentence, PhraseOpenings) + 1, Len(sentence) - 1)

\* where the separators of a body start: ", " (followed by a transition and a
\* space) and ", and finally "
SeparatorStarts(body) ==
    {i \in 1..Len(body) : body[i] \in {", ", ", and finally "}}

\* the k-th smallest of the separator starts seps, n + 1 past the last one
SeparatorStart(seps, n, k) ==
    IF k > Cardinality(seps) THEN n + 1
    ELSE CHOOSE i \in seps : Cardinality({j \in seps : j < i}) = k - 1

\* the first position after the separator of body that starts at i
SeparatorEnd(body, i) == IF body[i] = ", " THEN i + 3 ELSE i + 1

\* the k-th piece of body between the separators that start at seps
Piece(body, seps, k) ==
    SubSeq(body,
           IF k = 1 THEN 1
           ELSE SeparatorEnd(body, SeparatorStart(seps, Len(body), k - 1)),
           SeparatorStart(seps, Len(body), k) - 1)

PiecesOf(body, seps) ==
    [k \in 1..(Cardinality(seps) + 1) |-> Piece(body, seps, k)]

\* the phrases of a body: what the separators separate
SplitPhrases(body) == PiecesOf(body, SeparatorStarts(body))

\* the phrases of a day sentence, none when it has no opening
Phrases(sentence) ==
    IF FirstIn(sentence, PhraseOpenings) = 0 THEN <<>>
    ELSE SplitPhrases(Body(sentence))

\* the list tomorrow's section is built from: None counts as no events
TomorrowList == tomorrow_events_data.items

HasOrganizerSuffix(phrase) == \E i \in 1..Len(phrase) : phrase[i] = " with "

\* what follows " with " in a phrase
OrganizerSuffix(phrase) ==
    SubSeq(phrase, FirstIn(phrase, {" with "}) + 1, Len(phrase))

Max(a, b) == IF a >= b THEN a ELSE b

----------------------------------------------------------------------------
(* C1 *)

\* the grammar of one day sentence rendered from n events
DayGrammar(sentence, n) ==
    /\ Len(Connectives(sentence)) = Max(n - 1, 0)
    /\ (n >= 3) <=> /\ Connectives(sentence) # <<>>
                    /\ Connectives(sentence)[Len(Connectives(sentence))]
                           = ", and finally "
    /\ (n = 2) <=> /\ Connectives(sentence) # <<>>
                   /\ Connectives(sentence)[Len(Connectives(sentence))]
                          \in transitions
    /\ \A i \in 1..(Len(Connectives(sentence)) - 1) :
           Connectives(sentence)[i] \in transitions

\* C1: in every briefing, the sentence of a day with N events holds exactly
\* max(N-1, 0) connectives; the last one is "and finally" iff N >= 3 and a
\* transition word iff N = 2; all the others are transition words.  This holds
\* for today's sentence and for tomorrow's.
C1_ConnectiveGrammar ==
    Briefed =>
        /\ DayGrammar(TodaySentence(outcome.value), Len(events_data))
        /\ DayGrammar(TomorrowSentence(outcome.value), Len(TomorrowList))
        /\ Len(picks) = Len(SelectSeq(Connectives(outcome.value),
                                      LAMBDA a : a \in transitions))

\* a briefing of three events today: one transition, then "and finally"
C1_Witness ==
    /\ Briefed
    /\ Len(events_data) = 3
    /\ Connectives(TodaySentence(outcome.value)) = <<"next", ", and finally ">>

----------------------------------------------------------------------------
(* C2 *)

\* the phrases are those of the events of list, one each and in its order
RendersInOrder(phrases, list) ==
    /\ Len(phrases) = Len(list)
    /\ \A i \in 1..Len(list) :
           phrases[i] = MeetingPart(list[i], user_name).value

\* C2: in every briefing the i-th phrase of a day's sentence is the phrase of
\* the i-th event of that day's list, and the sentence has as many phrases as
\* the list has events: nothing is dropped, duplicated, merged or reordered.
C2_OrderPreserved ==
    Briefed =>
        /\ RendersInOrder(Phrases(TodaySentence(outcome.value)), events_data)
        /\ RendersInOrder(Phrases(TomorrowSentence(outcome.value)), TomorrowList)

\* three events received out of chronological order, one of them twice
C2_Witness ==
    /\ Briefed
    /\ events_data = <<Review, Standup, Review>>
    /\ Len(Phrases(TodaySentence(outcome.value))) = 3

----------------------------------------------------------------------------
(* C3 *)

\* the suffix rule of the code for the i-th event of a list and its phrase
SuffixRule(list, phrases, i) ==
    /\ ~HasOrganizerSuffix(phrases[i])
           <=> /\ user_name # <<>>
               /\ Contains(Lower(OrganizerOf(list[i])), Lower(user_name))
    /\ (HasOrganizerSuffix(phrases[i]) /\ list[i]["organizer"] = <<>>)
           => OrganizerSuffix(phrases[i]) = UnknownOrganizer

SuffixRuleAsClaimed(list, phrases, i) ==
    /\ ~HasOrganizerSuffix(phrases[i])
           <=> Contains(Lower(list[i]["organizer"]), Lower(user_name))
    /\ (HasOrganizerSuffix(phrases[i]) /\ list[i]["organizer"] = <<>>)
           => OrganizerSuffix(phrases[i]) = UnknownOrganizer

----------------------------------------------------------------------------
(* C4 *)

\* C4: with events today, a tomorrow list that is present but empty ends the
\* briefing with "Tomorrow is free with no scheduled meetings.", and an absent
\* tomorrow list (None) leaves the briefing without any tomorrow section.
C4_AbsentVersusEmpty ==
    (Briefed /\ events_data # <<>>) =>
        /\ (~tomorrow_events_data.none /\ tomorrow_events_data.items = <<>>)
               => outcome.value[Len(outcome.value)]
                      = " Tomorrow is free with no scheduled meetings."
        /\ tomorrow_events_data.none
               => TomorrowSentence(outcome.value) = <<>>

----------------------------------------------------------------------------
(* C5 *)

LacksKey(event) ==
    {"subject", "start_time", "end_time", "organizer"} \ DOMAIN event # {}

\* C5: a call of get_ai_day_analysis never ends by raising: it returns a text,
\* and when something failed while the briefing was built (input() raised
\* EOFError, or an event that is rendered lacks a key) the text is the apology
\* followed by the name of the failure.
C5_AlwaysAString ==
    /\ outcome.kind \in {"none", "returned"}
    /\ (outcome.kind = "returned" /\ outcome.error # "")
           => outcome.value = <<Apology, outcome.error>>
    /\ (outcome.kind = "returned" /\ \E i \in 1..Len(events_data) :
                                         LacksKey(events_data[i]))
           => /\ outcome.value[1] = Apology
              /\ outcome.value[2] \in {"'organizer'", "EOF when reading a line"}
    /\ (outcome.kind = "returned" /\ outcome.error = "")
           => outcome.value[1] \in {"Good morning", "Good afternoon",
                                    "Good evening", "Good night"}

\* the profile store fails: no readable name and input() raises EOFError
C5_Witness ==
    /\ outcome.kind = "returned"
    /\ prompts = 1
    /\ events_data = <<Standup>>
    /\ outcome.value = <<Apology, "EOF when reading a line">>

----------------------------------------------------------------------------
(* C6 *)

Midnight == <<"m", "i", "d", "n", "i", "g", "h", "t">>

Noon == <<"n", "o", "o", "n">>

HasPeriodSuffix(text) == Contains(text, AM) \/ Contains(text, PM)

\* C6 as amended: format_time_for_speech maps every 12-hour clock time
\* "hh:mm AM|PM" to a phrase without AM/PM suffix: "midnight" for 12:00 AM,
\* "noon" for 12:00 PM, the bare hour for any other time with minute 0, and
\* the hour followed by the zero-padded minute for a non-zero minute, where
\* the hour of 12:mm AM is spoken "0"; so "09:00 AM" gives "9", "12:00 PM"
\* gives "noon" and "12:30 AM" gives "0 30".
C6_ClockSpeech ==
    fn = "format_time_for_speech" =>
        /\ ~HasPeriodSuffix(ret)
        /\ ret = IF arg.minute = 0
                 THEN IF arg.hour = 12
                      THEN IF arg.period = AM THEN Midnight ELSE Noon
                      ELSE Str(arg.hour)
                 ELSE (IF arg.hour = 12 /\ arg.period = AM THEN <<"0">>
                       ELSE Str(arg.hour)) \o <<" ">> \o Pad2(arg.minute)

\* "12:30 AM" is spoken "0 30"
C6_Witness ==
    /\ fn = "format_time_for_speech"
    /\ arg = [hour |-> 12, minute |-> 30, period |-> AM]
    /\ ret = <<"0", " ", "3", "0">>

\* C6 as stated: as above, but 12:mm AM with a non-zero minute is spoken
\* "midnight mm", so "12:30 AM" gives "midnight 30".
C6_AsClaimed ==
    fn = "format_time_for_speech" =>
        /\ ~HasPeriodSuffix(ret)
        /\ ret = IF arg.minute = 0
                 THEN IF arg.hour = 12
                      THEN IF arg.period = AM THEN Midnight ELSE Noon
                      ELSE Str(arg.hour)
                 ELSE (IF arg.hour = 12 /\ arg.period = AM THEN Midnight
                       ELSE Str(arg.hour)) \o <<" ">> \o Pad2(arg.minute)

----------------------------------------------------------------------------
(* C7, C8 *)

\* the four digits stand as a word of their own in before \o word \o after
WholeWord(a) ==
    /\ a.before = <<>> \/ ~IsWord(a.before[Len(a.before)])
    /\ a.after = <<>> \/ ~IsWord(a.after[1])

HourOf(word) == 10 * DigitVal(word[1]) + DigitVal(word[2])

MinuteOf(word) == 10 * DigitVal(word[3]) + DigitVal(word[4])

IsTimeOfDay(word) == HourOf(word) <= 23 /\ MinuteOf(word) <= 59

\* the words C7 as amended gives for hour hh and minute mm
SpokenAsAmended(hh, mm) ==
    IF hh = 0 /\ mm = 0 THEN Midnight
    ELSE IF hh = 12 /\ mm = 0 THEN Noon
    ELSE IF hh = 0 THEN <<"1", "2", " ">> \o Pad2(mm) \o <<" ", "A", "M">>
    ELSE IF hh = 12 THEN <<"1", "2", " ">> \o Pad2(mm) \o <<" ", "P", "M">>
    ELSE IF hh > 12 /\ mm = 0 THEN Str(hh - 12)
    ELSE IF hh > 12 THEN Str(hh - 12) \o <<" ">> \o Pad2(mm)
    ELSE IF mm = 0 THEN Str(hh)
    ELSE Str(hh) \o <<" ">> \o Pad2(mm)

SpokenAsClaimed(hh, mm) ==
    IF hh = 0 /\ mm = 0 THEN Midnight
    ELSE IF hh = 12 /\ mm = 0 THEN Noon
    ELSE IF hh > 12 /\ mm = 0 THEN Str(hh - 12)
    ELSE IF hh > 12 THEN Str(hh - 12) \o <<" ">> \o Pad2(mm)
    ELSE IF mm = 0 THEN Str(hh)
    ELSE Str(hh) \o <<" ">> \o Pad2(mm)

C8_OnlyTimesRewritten ==
    fn = "fix_24h_times_for_tts" =>
        /\ (~WholeWord(arg) \/ ~IsTimeOfDay(arg.word))
               => ret = arg.before \o arg.word \o arg.after
        /\ SubSeq(ret, 1, Len(arg.before)) = arg.before
        /\ SubSeq(ret, Len(ret) - Len(arg.after) + 1, Len(ret)) = arg.after

----------------------------------------------------------------------------
(* C9 *)

IsLetterOrDigit(c) == c \in UpperLetters \cup LowerLetters \cup Digits

\* C9: clean_text_for_tts(t) holds only letters, digits and single spaces, with
\* no space at either end and no two spaces in a row; cleaning it again changes
\* nothing; the empty text is returned unchanged.
C9_CleanAndIdempotent ==
    fn = "clean_text_for_tts" =>
        /\ \A i \in 1..Len(ret) : IsLetterOrDigit(ret[i]) \/ ret[i] = " "
        /\ \A i \in 1..(Len(ret) - 1) : ~(ret[i] = " " /\ ret[i + 1] = " ")
        /\ ret # <<>> => (ret[1] # " " /\ ret[Len(ret)] # " ")
        /\ clean_text_for_tts(ret) = ret
        /\ arg = <<>> => ret = <<>>

\* " a_!" is cleaned: the underscore becomes a space, "!" goes, the ends are
\* stripped
C9_Witness ==
    /\ fn = "clean_text_for_tts"
    /\ arg = <<"\t", "a", "_", "!">>
    /\ ret = <<"a">>

----------------------------------------------------------------------------
(* C10 *)

\* C10: for every hour h in 0..23 the greeting is "Good morning" iff
\* 5 <= h < 12, "Good afternoon" iff 12 <= h < 17, "Good evening" iff
\* 17 <= h < 21 and "Good night" iff h >= 21 or h < 5: one greeting per hour.
C10_GreetingBuckets ==
    fn = "get_time_greeting" =>
        /\ ret = "Good morning" <=> (5 <= current_hour /\ current_hour < 12)
        /\ ret = "Good afternoon" <=> (12 <= current_hour /\ current_hour < 17)
        /\ ret = "Good evening" <=> (17 <= current_hour /\ current_hour < 21)
        /\ ret = "Good night" <=> (current_hour >= 21 \/ current_hour < 5)
        /\ ret \in {"Good morning", "Good afternoon", "Good evening",
                    "Good night"}

\* at noon the greeting changes to "Good afternoon"
C10_Witness ==
    /\ fn = "get_time_greeting"
    /\ current_hour = 12
    /\ ret = "Good afternoon"


----------------------------------------------------------------------------
(* C11 *)

Greetings == {"Good morning", "Good afternoon", "Good evening", "Good night"}

FreeDayClosing ==
    "! You have a free day with no scheduled meetings - perfect time to catch up on personal projects or take a well-deserved break!"

\* neither day has an event: today's list is empty and tomorrow's is empty or
\* absent
NothingScheduled == events_data = <<>> /\ tomorrow_events_data.items = <<>>

\* how many times the text word starts in text
Occurrences(text, word) ==
    Cardinality({i \in 1..Len(text) :
                    /\ i + Len(word) - 1 <= Len(text)
                    /\ SubSeq(text, i, i + Len(word) - 1) = word})

\* text is the free-day sentence for the name: greeting, space, name, closing
IsFreeDaySentence(text, name) ==
    /\ Len(text) = Len(name) + 3
    /\ text[1] = get_time_greeting(current_hour)
    /\ text[2] = " "
    /\ SubSeq(text, 3, Len(text) - 1) = name
    /\ text[Len(text)] = FreeDayClosing

----------------------------------------------------------------------------
(* C12 *)

\* where the trace of main has an entry of one of the events
EntriesOf(events) == {i \in 1..Len(trace) : trace[i].event \in events}

Displays == EntriesOf({"displayed"})

SpeechAttempts == EntriesOf({"said", "say raised"})

\* the briefing text is on the screen
BriefingDisplayed == \E j \in Displays : trace[j].text = outcome.value

\* C12: in a run of main the briefing text is displayed before any attempt
\* to speak it and whether or not the speech sink works: once the briefing
\* exists the run goes on to display it and to end; without an engine no
\* speech is attempted, an engine whose say() raises has its error swallowed
\* and reported, and a run never ends by an exception of the speech sink.
C12_DisplayBeforeSpeech ==
    /\ \A i \in SpeechAttempts :
           /\ trace[i].text = outcome.value
           /\ \E j \in Displays : j < i /\ trace[j].text = trace[i].text
    /\ outcome.kind = "returned"
           => pc \in {"display_daily_summary", "speak_text", "done"}
    /\ pc \in {"speak_text", "done"} => BriefingDisplayed
    /\ (pc = "done" /\ tts_engine.none)
           => /\ SpeechAttempts = {}
              /\ trace[Len(trace)] = Shown("printed again", outcome.value)
    /\ (pc = "done" /\ ~tts_engine.none /\ tts_engine.fails)
           => /\ trace[Len(trace) - 1] = Shown("say raised", outcome.value)
              /\ trace[Len(trace)] = Logged("TTS failed")
    /\ (pc = "done" /\ ~tts_engine.none /\ ~tts_engine.fails)
           => trace[Len(trace)] = Shown("said", outcome.value)
    /\ pc = "crashed" => SpeechAttempts = {} /\ outcome.kind = "none"

\* a run with two meetings today whose engine raises in say(): the briefing
\* was displayed, the failure was reported and main ended
C12_Witness ==
    /\ pc = "done"
    /\ tts_engine = Engine(TRUE)
    /\ Len(events_data) = 2
    /\ outcome.error = ""
    /\ \E j \in Displays : trace[j].text = outcome.value
    /\ EntriesOf({"say raised"}) # {}

----------------------------------------------------------------------------
(* C13 *)

\* the position of the first entry of the event in the trace, 0 without one
FirstEntry(event) ==
    IF EntriesOf({event}) = {} THEN 0
    ELSE CHOOSE i \in EntriesOf({event}) : \A j \in EntriesOf({event}) : i <= j

\* C13: every run of main performs fetch, compose, display and speak in
\* that order and ends normally: no failure of the calendar provider, of the
\* profile store (reading, prompting for or saving the name) or of the speech
\* sink ends the run with an uncaught exception.
C13_EndsNormally ==
    /\ pc # "crashed"
    /\ pc = "done"
           => /\ 0 < FirstEntry("fetched today")
              /\ FirstEntry("fetched today") < FirstEntry("fetched tomorrow")
              /\ FirstEntry("fetched tomorrow") < FirstEntry("composed")
              /\ FirstEntry("composed") < FirstEntry("displayed")
              /\ FirstEntry("displayed") < Len(trace)

----------------------------------------------------------------------------
(* C14 *)

HasWord(Subject, word) == Occurrences(Lower(Subject), word) > 0

\* the appointment has none of the three words in its subject and starts on
\* the day
PassesSubjectAndDay(appointment, day) ==
    /\ ~appointment.broken
    /\ ~HasWord(appointment.Subject, birthday)
    /\ ~HasWord(appointment.Subject, holiday)
    /\ ~HasWord(appointment.Subject, anniversary)
    /\ appointment.Start.day = day

\* the list returned is the list of dicts of the appointments kept
ReturnedFrom(events, appointments) ==
    /\ Len(events) = Len(appointments)
    /\ \A i \in 1..Len(events) :
           /\ appointments[i] \in calendar
           /\ events[i].subject = IF appointments[i].Subject = <<>>
                                   THEN NoSubject ELSE appointments[i].Subject
           /\ events[i].start_time = Strftime(appointments[i].Start)

\* C14: no holiday, birthday or anniversary entry reaches the briefing: the
\* lists returned by get_today_calendar_events (filtered path and manual
\* search) and by get_tomorrow_calendar_events hold no appointment whose
\* subject contains "birthday", "holiday" or "anniversary" in any case, and
\* only appointments that start on the requested day; the all-day flag is
\* not tested, it is only recorded under 'all_day' in today's dicts.
C14_SubjectAndDayFilter ==
    /\ ReturnedFrom(events_data, appointments_today)
    /\ ReturnedFrom(tomorrow_events_data.items, appointments_tomorrow)
    /\ \A i \in 1..Len(appointments_today) :
           /\ PassesSubjectAndDay(appointments_today[i], 0)
           /\ events_data[i].all_day = appointments_today[i].AllDayEvent
    /\ \A i \in 1..Len(appointments_tomorrow) :
           PassesSubjectAndDay(appointments_tomorrow[i], 1)

\* today's all-day appointment is returned while the birthday of the same
\* calendar is not, and the briefing is built from it
C14_Witness ==
    /\ pc = "done"
    /\ calendar = {DayOff, Party}
    /\ appointments_today = <<DayOff>>
    /\ events_data[1].all_day
    /\ outcome.error = ""

\* C14 as claimed: in addition no appointment returned has its all-day flag
\* set
C14_AsClaimed ==
    /\ C14_SubjectAndDayFilter
    /\ \A i \in 1..Len(appointments_today) :
           ~appointments_today[i].AllDayEvent
    /\ \A i \in 1..Len(appointments_tomorrow) :
           ~appointments_tomorrow[i].AllDayEvent

----------------------------------------------------------------------------
(* C15 *)

\* C15: within one run of main the user's name is obtained exactly once and
\* stays the same: get_user_name is called once, the user is prompted at most
\* once, and the name the briefing uses is the one main obtained at its start.
C15_NameObtainedOnce ==
    /\ name_calls <= 1
    /\ prompts <= 1
    /\ (outcome.kind = "returned" /\ outcome.error = "")
           => user_name = main_user_name
====
